---- MODULE Spec2Model ----
(***************************************************************************)
(* Windowed inference serving of predict.py: startup loading               *)
(* (initialize_app, load_demo_data) and the two read endpoints             *)
(* /demo_predict and /demo_data.                                           *)
(*                                                                         *)
(* Encoding.  Python's None is a record with is_none = TRUE; a float NaN   *)
(* cell is the integer NaN below, which no input column otherwise holds;   *)
(* a query-string value is a sequence of one-character strings; a float    *)
(* parsed from a query string is an exact fraction num/den.                *)
(***************************************************************************)
EXTENDS Integers, Sequences, FiniteSets, TLC

\* Longest session (rows of the raw arrays) that is loaded.
MaxRows == 3

DEMO_ID == 35

NaN == -1000

Max(a, b) == IF a >= b THEN a ELSE b

Min(a, b) == IF a <= b THEN a ELSE b

Abs(a) == IF a >= 0 THEN a ELSE -a

VARIABLES startup, predictor, demo_item_df, request, response,
          input_sequence_df, input_array, closest_idx

vars == <<startup, predictor, demo_item_df, request, response,
          input_sequence_df, input_array, closest_idx>>

-----------------------------------------------------------------------------
(* Module-level globals, predict.py lines 33-34. *)

NonePredictor ==
    [is_none |-> TRUE, model |-> FALSE, sampling_rate |-> 0,
     window_duration |-> 0, prediction_duration |-> 0]

NoneDf == [is_none |-> TRUE, rows |-> <<>>]

DataFrame(rows) == [is_none |-> FALSE, rows |-> rows]

-----------------------------------------------------------------------------
(* Query-string parsing: int(idx_str) and float(t_str). *)

Digits == {"0", "1", "2", "3", "4", "5", "6", "7", "8", "9"}

DigitVal(c) ==
    CASE c = "0" -> 0 [] c = "1" -> 1 [] c = "2" -> 2 [] c = "3" -> 3
      [] c = "4" -> 4 [] c = "5" -> 5 [] c = "6" -> 6 [] c = "7" -> 7
      [] c = "8" -> 8 [] c = "9" -> 9

RECURSIVE LStrip(_)
LStrip(s) == IF s # <<>> /\ Head(s) = " " THEN LStrip(Tail(s)) ELSE s

RECURSIVE RStrip(_)
RStrip(s) ==
    IF s # <<>> /\ s[Len(s)] = " " THEN RStrip(SubSeq(s, 1, Len(s) - 1)) ELSE s

Strip(s) == RStrip(LStrip(s))

AllDigits(s) == \A i \in 1..Len(s) : s[i] \in Digits

RECURSIVE DecimalValue(_)
DecimalValue(s) ==
    IF s = <<>> THEN 0
    ELSE 10 * DecimalValue(SubSeq(s, 1, Len(s) - 1)) + DigitVal(s[Len(s)])

RECURSIVE Pow10(_)
Pow10(n) == IF n = 0 THEN 1 ELSE 10 * Pow10(n - 1)

HasSign(s) == s # <<>> /\ Head(s) \in {"+", "-"}

Unsigned(s) == IF HasSign(s) THEN Tail(s) ELSE s

SignOf(s) == IF s # <<>> /\ Head(s) = "-" THEN -1 ELSE 1

\* int(str): surrounding blanks, an optional sign, then one or more digits.
\* ok = FALSE is ValueError.  (Underscore digit separators are not in the
\* alphabet of the requests below.)
ParseInt(s) ==
    LET body == Unsigned(Strip(s))
    IN  IF body # <<>> /\ AllDigits(body)
        THEN [ok |-> TRUE, val |-> SignOf(Strip(s)) * DecimalValue(body)]
        ELSE [ok |-> FALSE, val |-> 0]

DotPositions(s) == {i \in 1..Len(s) : s[i] = "."}

\* float(str): surrounding blanks, an optional sign, then "nan", or digits
\* with at most one point and a digit on at least one side of it.  The value
\* is num/den.  (Exponents and "inf" are not in the alphabet of the requests.)
ParseFloat(s) ==
    LET body == Unsigned(Strip(s))
        sign == SignOf(Strip(s))
        dots == DotPositions(body)
        bad  == [ok |-> FALSE, nan |-> FALSE, num |-> 0, den |-> 1]
    IN  IF body = <<"n", "a", "n">>
        THEN [ok |-> TRUE, nan |-> TRUE, num |-> 0, den |-> 1]
        ELSE IF dots = {}
        THEN IF body # <<>> /\ AllDigits(body)
             THEN [ok |-> TRUE, nan |-> FALSE,
                   num |-> sign * DecimalValue(body), den |-> 1]
             ELSE bad
        ELSE IF Cardinality(dots) > 1 THEN bad
        ELSE LET p    == CHOOSE i \in dots : TRUE
                 int  == SubSeq(body, 1, p - 1)
                 frac == SubSeq(body, p + 1, Len(body))
             IN  IF AllDigits(int) /\ AllDigits(frac) /\ Len(int) + Len(frac) > 0
                 THEN [ok |-> TRUE, nan |-> FALSE,
                       num |-> sign * (DecimalValue(int) * Pow10(Len(frac))
                                       + DecimalValue(frac)),
                       den |-> Pow10(Len(frac))]
                 ELSE bad

-----------------------------------------------------------------------------
(* load_demo_data *)

\* Raw rows of a session: the three arrays of the session dictionary, read
\* row by row.
RawTimestamps == {0, 2, 5}

RawReadings ==
    { [heart_rate |-> 60,  speed |-> 0],
      [heart_rate |-> 70,  speed |-> 4],
      [heart_rate |-> NaN, speed |-> 4],
      [heart_rate |-> 60,  speed |-> NaN],
      [heart_rate |-> 0,   speed |-> 4],
      [heart_rate |-> 60,  speed |-> -1] }

RawRows ==
    { [timestamp |-> ts, heart_rate |-> r.heart_rate, speed |-> r.speed] :
        ts \in RawTimestamps, r \in RawReadings }
    \cup { [timestamp |-> NaN, heart_rate |-> 60, speed |-> 0] }

Sessions == UNION { [1..n -> RawRows] : n \in 0..MaxRows }

\* What np.load finds at data/raw_run_data.npy.
DataFiles ==
    { [kind |-> "missing", n |-> 0, keys_ok |-> FALSE, rows |-> <<>>],
      [kind |-> "scalar",  n |-> 0, keys_ok |-> FALSE, rows |-> <<>>],
      [kind |-> "list",    n |-> DEMO_ID, keys_ok |-> TRUE, rows |-> <<>>],
      [kind |-> "list",    n |-> DEMO_ID + 1, keys_ok |-> FALSE, rows |-> <<>>],
      [kind |-> "dict",    n |-> 0, keys_ok |-> FALSE, rows |-> <<>>] }
    \cup { [kind |-> k, n |-> IF k = "list" THEN DEMO_ID + 1 ELSE 0,
            keys_ok |-> TRUE, rows |-> s] :
             k \in {"list", "dict"}, s \in Sessions }

\* Ascending order of sort_values, NaN last.
KeyLe(a, b) == b = NaN \/ (a # NaN /\ a <= b)

InsertAt(s, p, r) == SubSeq(s, 1, p) \o <<r>> \o SubSeq(s, p + 1, Len(s))

\* The places a row can take in a sorted frame.  sort_values uses the default
\* kind (quicksort), which is not stable: rows of equal timestamp come out in
\* any order.
InsertSorted(s, r) ==
    { InsertAt(s, p, r) : p \in
        { q \in 0..Len(s) :
            /\ \A i \in 1..q : KeyLe(s[i].timestamp, r.timestamp)
            /\ \A i \in (q + 1)..Len(s) : KeyLe(r.timestamp, s[i].timestamp) } }

RECURSIVE SortValues(_)
SortValues(rows) ==
    IF rows = <<>> THEN {<<>>}
    ELSE UNION { InsertSorted(s, rows[Len(rows)]) :
                   s \in SortValues(SubSeq(rows, 1, Len(rows) - 1)) }

Minus(a, b) == IF a = NaN \/ b = NaN THEN NaN ELSE a - b

\* df['origin_timestamp'] = df['timestamp'] - df['timestamp'].iloc[0]
WithOrigin(df) ==
    [i \in 1..Len(df) |->
        [timestamp |-> df[i].timestamp, heart_rate |-> df[i].heart_rate,
         speed |-> df[i].speed,
         origin_timestamp |-> Minus(df[i].timestamp, df[1].timestamp)]]

DropNa(r) == r.heart_rate # NaN /\ r.speed # NaN /\ r.timestamp # NaN

ValidReading(r) == r.speed >= 0 /\ r.heart_rate > 0

\* dropna, the boolean mask and reset_index.
Clean(df) == SelectSeq(df, LAMBDA r : DropNa(r) /\ ValidReading(r))

LoadError(e) == [err |-> e, rows |-> <<>>]

\* The outcomes of load_demo_data: an exception (err) or the returned frame.
load_demo_data(file) ==
    IF file.kind = "missing" THEN {LoadError("FileNotFoundError")}
    ELSE IF file.kind = "scalar" THEN {LoadError("TypeError")}
    ELSE IF file.kind = "list" /\ ~(0 <= DEMO_ID /\ DEMO_ID < file.n)
    THEN {LoadError("ValueError")}
    ELSE IF ~file.keys_ok THEN {LoadError("ValueError")}
    ELSE IF file.rows = <<>> THEN {LoadError("ValueError")}
    ELSE { IF Clean(WithOrigin(s)) = <<>> THEN LoadError("ValueError")
           ELSE [err |-> "none", rows |-> Clean(WithOrigin(s))] :
             s \in SortValues(file.rows) }

-----------------------------------------------------------------------------
(* FitRecSpeedPredictor (model.py) as predict.py uses it. *)

\* What load_model_config finds at model.json.
Config(sr, wd, pd) ==
    [kind |-> "config", sampling_rate |-> sr, window_duration |-> wd,
     prediction_duration |-> pd]

ModelFiles ==
    { [kind |-> "missing", sampling_rate |-> 0, window_duration |-> 0,
       prediction_duration |-> 0],
      [kind |-> "corrupt", sampling_rate |-> 0, window_duration |-> 0,
       prediction_duration |-> 0],
      Config(0, 3, 2), Config(-1, 3, 2), Config(2, 1, 2), Config(2, -3, 2),
      Config(1, 1, 0), Config(1, 3, 2), Config(2, 5, 5), Config(1, 2, 5),
      Config(2, 4, 1), Config(1, 5, 2) }

\* predictor after FitRecSpeedPredictor() and load_model_config(path).
load_model_config(file) ==
    [is_none |-> FALSE, model |-> TRUE, sampling_rate |-> file.sampling_rate,
     window_duration |-> file.window_duration,
     prediction_duration |-> file.prediction_duration]

\* predictor.predict: an opaque deterministic function of its input.
predict(x) == [model |-> "FitRecSpeedPredictor", input |-> x]

NoPrediction == [model |-> "none", input |-> <<>>]

-----------------------------------------------------------------------------
(* initialize_app *)

\* The globals after either except clause of initialize_app.
FailedGlobals(p, df) == [predictor |-> NonePredictor, demo_item_df |-> NoneDf]

NoRequest == [endpoint |-> "none", present |-> FALSE, arg |-> <<>>]

NoWindow == [built |-> FALSE, rows |-> <<>>]

Response(status, error) ==
    [status |-> status, error |-> error, predicted_speed |-> NoPrediction,
     next_idx |-> -1, current_input_end_origin_timestamp |-> -1,
     next_idx_origin_timestamp |-> -1, row |-> <<>>]

NoResponse == Response(0, "none")

Init ==
    /\ startup = "pending"
    /\ predictor = NonePredictor
    /\ demo_item_df = NoneDf
    /\ request = NoRequest
    /\ response = NoResponse
    /\ input_sequence_df = NoWindow
    /\ input_array = <<>>
    /\ closest_idx = -1

\* How initialize_app ends for a model file and an outcome of load_demo_data.
InitOutcome(mf, out) ==
    IF mf.kind = "missing" THEN "FileNotFoundError"
    ELSE IF mf.kind = "corrupt" THEN "Exception"
    ELSE IF out.err = "FileNotFoundError" THEN "FileNotFoundError"
    ELSE IF out.err # "none" THEN "Exception"
    ELSE "ok"

initialize_app ==
    /\ startup = "pending"
    /\ \E file \in DataFiles : \E out \in load_demo_data(file) :
       \E mf \in ModelFiles :
         LET outcome == InitOutcome(mf, out)
             loaded  == IF mf.kind = "config" THEN load_model_config(mf)
                        ELSE [NonePredictor EXCEPT !.is_none = FALSE]
             failed  == FailedGlobals(loaded, NoneDf)
         IN  /\ startup' = outcome
             /\ predictor' = IF outcome = "ok" THEN loaded ELSE failed.predictor
             /\ demo_item_df' = IF outcome = "ok" THEN DataFrame(out.rows)
                                ELSE failed.demo_item_df
    /\ UNCHANGED <<request, response, input_sequence_df, input_array,
                   closest_idx>>

\* The module is imported by a server: the __main__ block does not run and
\* requests are served with the globals as the module body left them.
import_module ==
    /\ startup = "pending"
    /\ startup' = "not_run"
    /\ UNCHANGED <<predictor, demo_item_df, request, response,
                   input_sequence_df, input_array, closest_idx>>

Serving == startup # "pending"

-----------------------------------------------------------------------------
(* Requests *)

IdxArgs ==
    { <<"0">>, <<"1">>, <<"2">>, <<"3">>, <<"4">>, <<"-", "1">>, <<"+", "1">>,
      <<" ", "2">>, <<"0", "2">>, <<"1", "0">>, <<"1", ".", "5">>, <<"x">>,
      <<"-">>, <<>> }

TArgs ==
    { <<"0">>, <<"1">>, <<"3">>, <<"4">>, <<"9">>, <<"-", "1">>,
      <<"3", ".", "5">>, <<"2", ".", "5">>, <<".", "5">>, <<"1", ".">>,
      <<"n", "a", "n">>, <<"x">>, <<".">>, <<>> }

\* request.args.get(name): present = FALSE is a query string without it.
Requests(endpoint, args) ==
    { [endpoint |-> endpoint, present |-> FALSE, arg |-> <<>>] }
    \cup { [endpoint |-> endpoint, present |-> TRUE, arg |-> a] : a \in args }

\* df.iloc[lo:hi] on rows numbered from 0, with Python's slice clamping.
SliceBound(x, n) == IF x < 0 THEN Max(0, x + n) ELSE Min(x, n)

ILocSlice(rows, lo, hi) ==
    SubSeq(rows, SliceBound(lo, Len(rows)) + 1, SliceBound(hi, Len(rows)))

\* int(a / b) for b > 0: true division, then truncation toward zero.
TruncDiv(a, b) == IF a >= 0 THEN a \div b ELSE -((-a) \div b)

-----------------------------------------------------------------------------
(* demo_predict_api *)

PredictNotInitialized(p, df) ==
    p.is_none \/ ~p.model \/ df.is_none \/ df.rows = <<>>

\* Faulty variant: the upper bound taken inclusive.
InBoundsInclusive(idx, n) == 0 <= idx /\ idx <= n

InBounds(idx, n) == 0 <= idx /\ idx < n

SamplingRateInvalid(sr) == sr <= 0

WindowSamples(p) == TruncDiv(p.window_duration, p.sampling_rate)

\* Faulty variant: a window of zero samples accepted.
WindowSamplesNegative(ws) == ws < 0

WindowSamplesInvalid(ws) == ws <= 0

\* Faulty variant: the window starts one row early.
WindowStartEarly(idx, ws) == Max(0, idx - ws)

WindowStart(idx, ws) == Max(0, idx - ws + 1)

\* Faulty variant: a window one row short accepted.
IsInsufficientLoose(n, ws) == n < ws - 1

IsInsufficient(n, ws) == n < ws

\* Faulty variant: the columns taken in the other order.
ColumnPairSwapped(row) == <<row.heart_rate, row.speed>>

\* input_sequence_df[['speed', 'heart_rate']].values, row by row.
ColumnPair(row) == <<row.speed, row.heart_rate>>

ShapeMismatch(arr, ws) ==
    Len(arr) # ws \/ \E i \in 1..Len(arr) : Len(arr[i]) # 2

SamplesToAdvance(p) ==
    LET n == TruncDiv(p.prediction_duration, p.sampling_rate)
    IN  IF n <= 0 THEN 1 ELSE n

\* Faulty variant: the next index not clamped to the end of the series.
NextIdxUnclamped(idx, adv, n) == idx + adv

NextIdx(idx, adv, n) == Min(idx + adv, n - 1)

\* What one call of the handler computes: the response and the locals
\* input_sequence_df and the argument of predictor.predict (calls).
PredictResult(resp, window, calls) ==
    [response |-> resp, input_sequence_df |-> window, calls |-> calls]

PredictFail(status, error) ==
    PredictResult(Response(status, error), NoWindow, <<>>)

demo_predict(p, df, req) ==
    IF PredictNotInitialized(p, df) THEN PredictFail(500, "NotInitialized")
    ELSE IF ~req.present THEN PredictFail(400, "MissingParameter")
    ELSE IF ~ParseInt(req.arg).ok THEN PredictFail(400, "InvalidParameter")
    ELSE
    LET idx == ParseInt(req.arg).val
        n   == Len(df.rows)
    IN  IF ~InBounds(idx, n) THEN PredictFail(400, "IndexOutOfRange")
        ELSE IF SamplingRateInvalid(p.sampling_rate)
        THEN PredictFail(500, "ConfigurationError:sampling_rate")
        ELSE
        LET ws == WindowSamples(p)
        IN  IF WindowSamplesInvalid(ws)
            THEN PredictFail(500, "ConfigurationError:window_samples")
            ELSE
            LET start  == WindowStart(idx, ws)
                rows   == ILocSlice(df.rows, start, idx + 1)
                window == [built |-> TRUE, rows |-> rows]
                arr    == [i \in 1..Len(rows) |-> ColumnPair(rows[i])]
                next   == NextIdx(idx, SamplesToAdvance(p), n)
            IN  IF IsInsufficient(Len(rows), ws)
                THEN PredictResult(Response(400, "InsufficientWindow"),
                                   window, <<>>)
                ELSE IF ShapeMismatch(arr, ws)
                THEN PredictResult(Response(500, "InvalidInputShape"),
                                   window, <<>>)
                ELSE PredictResult(
                       [status |-> 200, error |-> "none",
                        predicted_speed |-> predict(arr),
                        next_idx |-> next,
                        current_input_end_origin_timestamp |->
                            df.rows[idx + 1].origin_timestamp,
                        next_idx_origin_timestamp |->
                            IF 0 <= next /\ next < n
                            THEN df.rows[next + 1].origin_timestamp ELSE -1,
                        row |-> <<>>],
                       window, <<arr>>)

\* Faulty variant: a request consumes the first row of the series.
GlobalsAfterRequestConsuming(p, df) ==
    [predictor |-> p,
     demo_item_df |-> IF Len(df.rows) > 1
                      THEN [df EXCEPT !.rows = Tail(df.rows)] ELSE df]

\* The handlers declare predictor and demo_item_df global and assign
\* neither.
GlobalsAfterRequest(p, df) == [predictor |-> p, demo_item_df |-> df]

demo_predict_api ==
    /\ Serving
    /\ \E req \in Requests("/demo_predict", IdxArgs) :
         LET r == demo_predict(predictor, demo_item_df, req)
             g == GlobalsAfterRequest(predictor, demo_item_df)
         IN  /\ request' = req
             /\ response' = r.response
             /\ input_sequence_df' = r.input_sequence_df
             /\ input_array' = r.calls
             /\ predictor' = g.predictor
             /\ demo_item_df' = g.demo_item_df
    /\ closest_idx' = -1
    /\ UNCHANGED startup

-----------------------------------------------------------------------------
(* demo_data_api *)

\* Faulty variant: the handler does not check that the data is loaded.
DataNotLoadedUnchecked(df) == FALSE

DataNotLoaded(df) == df.is_none \/ df.rows = <<>>

\* (demo_item_df['origin_timestamp'] - t).abs(), scaled by t's denominator.
Distances(rows, t) ==
    [i \in 1..Len(rows) |-> Abs(rows[i].origin_timestamp * t.den - t.num)]

\* Faulty variant: the last occurrence of the minimum.
IdxMinLast(d) ==
    (CHOOSE i \in 1..Len(d) :
        /\ \A j \in 1..Len(d) : d[i] <= d[j]
        /\ \A j \in (i + 1)..Len(d) : d[j] > d[i]) - 1

\* Series.idxmin: the label of the first occurrence of the minimum; after
\* reset_index the labels are the positions 0..n-1.
IdxMin(d) ==
    (CHOOSE i \in 1..Len(d) :
        /\ \A j \in 1..Len(d) : d[i] <= d[j]
        /\ \A j \in 1..(i - 1) : d[j] > d[i]) - 1

DataResult(resp, idx) == [response |-> resp, closest_idx |-> idx]

\* The outcomes of one call of the handler.
demo_data(df, req) ==
    IF DataNotLoaded(df) THEN {DataResult(Response(500, "NotInitialized"), -1)}
    ELSE IF ~req.present
    THEN {DataResult(Response(400, "MissingParameter"), -1)}
    ELSE IF ~ParseFloat(req.arg).ok
    THEN {DataResult(Response(400, "InvalidParameter"), -1)}
    ELSE IF df.is_none
    THEN \* subscripting None: TypeError, caught by "except Exception"
         {DataResult(Response(500, "InternalError"), -1)}
    ELSE IF ParseFloat(req.arg).nan
    THEN \* every distance is NaN: idxmin raises ValueError (caught as an
         \* invalid parameter) or returns NaN and .loc raises KeyError,
         \* depending on the pandas version
         {DataResult(Response(400, "InvalidParameter"), -1),
          DataResult(Response(500, "InternalError"), -1)}
    ELSE LET idx == IdxMin(Distances(df.rows, ParseFloat(req.arg)))
         IN  {DataResult([Response(200, "none") EXCEPT
                             !.row = <<df.rows[idx + 1]>>], idx)}

demo_data_api ==
    /\ Serving
    /\ \E req \in Requests("/demo_data", TArgs) :
       \E r \in demo_data(demo_item_df, req) :
         LET g == GlobalsAfterRequest(predictor, demo_item_df)
         IN  /\ request' = req
             /\ response' = r.response
             /\ closest_idx' = r.closest_idx
             /\ predictor' = g.predictor
             /\ demo_item_df' = g.demo_item_df
    /\ input_sequence_df' = NoWindow
    /\ input_array' = <<>>
    /\ UNCHANGED startup

-----------------------------------------------------------------------------

Next == initialize_app \/ import_module \/ demo_predict_api \/ demo_data_api

Spec == Init /\ [][Next]_vars

-----------------------------------------------------------------------------
(* Properties *)

Initialised == startup = "ok"

Series == demo_item_df.rows

IsPredict == request.endpoint = "/demo_predict"

IsData == request.endpoint = "/demo_data"

HasIdx == IsPredict /\ request.present /\ ParseInt(request.arg).ok

Idx == ParseInt(request.arg).val

IdxInRange == 0 <= Idx /\ Idx < Len(Series)

\* floor(duration / sampling_rate), for sampling_rate > 0
FloorSamples(duration) == duration \div predictor.sampling_rate

window_samples == FloorSamples(predictor.window_duration)

advance_samples ==
    IF FloorSamples(predictor.prediction_duration) >= 1
    THEN FloorSamples(predictor.prediction_duration) ELSE 1

ConfigOk == predictor.sampling_rate > 0 /\ window_samples >= 1

\* C1: for an initialised service and window_samples <= idx+1 <= length(),
\* the window Predict builds has exactly window_samples rows, which are the
\* rows idx-window_samples+1 .. idx of the series in series order, the last
\* one being the sample at idx.
C1_WindowExact ==
    (Initialised /\ HasIdx /\ ConfigOk
       /\ window_samples <= Idx + 1 /\ Idx + 1 <= Len(Series))
    => /\ input_sequence_df.built
       /\ Len(input_sequence_df.rows) = window_samples
       /\ \A i \in 1..window_samples :
            input_sequence_df.rows[i] = Series[Idx + 1 - window_samples + i]
       /\ input_sequence_df.rows[Len(input_sequence_df.rows)] = Series[Idx + 1]

C1_Witness ==
    /\ Initialised /\ HasIdx /\ ConfigOk
    /\ window_samples = 2 /\ Idx = 2 /\ Len(Series) = 3
    /\ input_sequence_df.built
    /\ response.status = 200

\* C2 as stated: for all idx < window_samples - 1, Predict fails with
\* InsufficientWindow, and nothing is passed to the model.
C2_Original ==
    (Initialised /\ HasIdx /\ predictor.sampling_rate > 0
       /\ Idx < window_samples - 1)
    => /\ response.status = 400
       /\ response.error = "InsufficientWindow"
       /\ input_array = <<>>

\* C2 amended: for an initialised service with sampling_rate > 0 and all idx
\* with 0 <= idx < length() and idx < window_samples - 1, Predict fails with
\* InsufficientWindow (400); the window holds the idx+1 rows there are,
\* unpadded, and nothing is passed to the model.
C2_InsufficientWindow ==
    (Initialised /\ HasIdx /\ predictor.sampling_rate > 0
       /\ IdxInRange /\ Idx < window_samples - 1)
    => /\ response.status = 400
       /\ response.error = "InsufficientWindow"
       /\ input_sequence_df.rows = SubSeq(Series, 1, Idx + 1)
       /\ input_array = <<>>
       /\ response.predicted_speed = NoPrediction

C2_Witness ==
    /\ Initialised /\ HasIdx /\ IdxInRange
    /\ predictor.sampling_rate > 0 /\ window_samples = 3 /\ Idx = 1
    /\ response.error = "InsufficientWindow"

\* C3: for an initialised service and every integer idx outside
\* [0, length()), Predict fails with IndexOutOfRange (400) under every model
\* configuration; no window is built and no prediction is made.
C3_IndexOutOfRange ==
    (Initialised /\ HasIdx /\ ~IdxInRange)
    => /\ response.status = 400
       /\ response.error = "IndexOutOfRange"
       /\ ~input_sequence_df.built
       /\ input_array = <<>>
       /\ response.predicted_speed = NoPrediction

C3_Witness ==
    /\ Initialised /\ HasIdx /\ Idx = Len(Series)
    /\ predictor.sampling_rate <= 0
    /\ response.error = "IndexOutOfRange"

\* C4: in every successful Predict response next_idx is
\* min(idx + advance_samples, length()-1), lies in [idx, length()-1], and
\* is length()-1 when idx + advance_samples >= length().
C4_NextIdx ==
    (IsPredict /\ response.status = 200)
    => /\ response.next_idx =
            (IF Idx + advance_samples <= Len(Series) - 1
             THEN Idx + advance_samples ELSE Len(Series) - 1)
       /\ Idx <= response.next_idx
       /\ response.next_idx <= Len(Series) - 1
       /\ (Idx + advance_samples >= Len(Series)
             => response.next_idx = Len(Series) - 1)

C4_Witness ==
    /\ IsPredict /\ response.status = 200
    /\ advance_samples = 2 /\ Idx = 1 /\ Len(Series) = 2
    /\ response.next_idx = 1

\* C5: when startup loading failed or did not run, every request to either
\* endpoint is answered NotInitialized (500), whether its parameter is
\* missing, unparsable, out of range or fine; none reports success.
C5_NotInitialized ==
    (~Initialised /\ request # NoRequest)
    => /\ response.status = 500
       /\ response.error = "NotInitialized"

C5_Witness ==
    /\ startup = "FileNotFoundError"
    /\ IsData /\ ~request.present
    /\ response.error = "NotInitialized"

\* |origin_timestamp - t| of row i, scaled by the denominator of t
C6_Distance(i) ==
    LET t == ParseFloat(request.arg)
        d == Series[i].origin_timestamp * t.den - t.num
    IN  IF d < 0 THEN -d ELSE d

C6_Numeric ==
    /\ IsData /\ request.present
    /\ ParseFloat(request.arg).ok /\ ~ParseFloat(request.arg).nan

\* C6: for every numeric t the data lookup returns the sample at the index
\* whose origin_timestamp is nearest to t, the earliest such index on ties.
C6_Nearest ==
    (Initialised /\ C6_Numeric)
    => /\ response.status = 200
       /\ closest_idx \in 0..(Len(Series) - 1)
       /\ response.row = <<Series[closest_idx + 1]>>
       /\ \A j \in 1..Len(Series) :
            C6_Distance(closest_idx + 1) <= C6_Distance(j)
       /\ \A j \in 1..closest_idx :
            C6_Distance(j) > C6_Distance(closest_idx + 1)

C6_Witness ==
    /\ Initialised /\ C6_Numeric
    /\ request.arg = <<"3", ".", "5">>
    /\ Len(Series) = 3
    /\ Series[1].origin_timestamp = 0
    /\ Series[2].origin_timestamp = 2
    /\ Series[3].origin_timestamp = 5
    /\ closest_idx = 1

\* C7: every series load_demo_data returns is non-empty, non-decreasing by
\* timestamp, and origin_timestamp is timestamp minus the first sample's
\* timestamp (0 for the first sample, >= 0 for all).
C7_SeriesInvariant ==
    Initialised
    => /\ Series # <<>>
       /\ \A i \in 1..(Len(Series) - 1) :
            Series[i].timestamp <= Series[i + 1].timestamp
       /\ Series[1].origin_timestamp = 0
       /\ \A i \in 1..Len(Series) :
            /\ Series[i].origin_timestamp >= 0
            /\ Series[i].origin_timestamp =
                 Series[i].timestamp - Series[1].timestamp

C9_ModelInput ==
    /\ input_array # <<>>
         => /\ IsPredict /\ HasIdx /\ ConfigOk
            /\ Len(input_array) = 1
            /\ Len(input_array[1]) = window_samples
            /\ \A i \in 1..window_samples :
                 LET row == Series[Idx + 1 - window_samples + i]
                 IN  /\ Len(input_array[1][i]) = 2
                     /\ input_array[1][i][1] = row.speed
                     /\ input_array[1][i][2] = row.heart_rate
    /\ response.status # 200 => input_array = <<>>

C9_Witness ==
    /\ input_array # <<>>
    /\ Len(input_array[1]) = 2
    /\ input_array[1][1] # input_array[1][2]

\* C10: for an initialised service and an in-range idx, Predict answers a
\* configuration error (500) whenever sampling_rate <= 0 or window_samples
\* <= 0; under such a configuration a missing, unparsable or out-of-range
\* idx is still answered with a client error (400).
C10_Defective ==
    predictor.sampling_rate <= 0 \/ window_samples <= 0

C10_ConfigurationError ==
    (Initialised /\ IsPredict /\ C10_Defective)
    => IF HasIdx /\ IdxInRange
       THEN /\ response.status = 500
            /\ response.error \in {"ConfigurationError:sampling_rate",
                                   "ConfigurationError:window_samples"}
       ELSE response.status = 400

C10_Witness ==
    /\ Initialised /\ HasIdx /\ IdxInRange
    /\ predictor.sampling_rate > 0 /\ window_samples = 0
    /\ response.status = 500

====
